---- MODULE Spec2Model ----
(***************************************************************************)
(* PipedreamClient (src/pipedream.py): the OAuth client-credentials token  *)
(* cache (_get_access_token), the request dispatcher (_request), the four  *)
(* delete operations that talk to the session directly, and the argument   *)
(* validation of every resource method.                                    *)
(*                                                                         *)
(* A caller is a coroutine running a public method on the one client.  It  *)
(* runs without interruption between two awaits, so one action is the code *)
(* between two suspension points:                                          *)
(*   Call             from the call up to the first request being sent     *)
(*   TokenResponse    the token POST completes; lines 237-253, then the    *)
(*                    caller goes on to send its resource request          *)
(*   ResourceResponse the resource request completes; lines 278-292 or the *)
(*                    delete handlers' lines 486-500                       *)
(*   Return           the caller takes the result, the coroutine is gone   *)
(*   Tick             the wall clock (time.time()) moves forward           *)
(* The remote server and the aiohttp transport are the environment: every  *)
(* response and every transport failure is drawn from a small set.         *)
(***************************************************************************)
EXTENDS Integers, FiniteSets, Sequences, TLC

\* ------------------------------------------------------------------ bounds
NumCallers == 2        \* coroutines that may overlap on the client
NumTokens  == 2        \* distinct token strings the token endpoint issues
MaxTime    == 41       \* last instant of the wall clock that is observed

\* ------------------------------------------------------- program constants
MARGIN            == 60       \* "- 60" of line 243
DEFAULT_EXPIRES   == 3600     \* data.get("expires_in", 3600), line 242
NoneToken         == 0        \* self._access_token = None, line 206
EmptyToken        == -1       \* an access_token of "" (falsy, line 244)
InitialExpiresAt  == 0        \* self._token_expires_at = 0, line 207
HTTP_OK           == 200      \* response.status == 200, line 238
HTTP_NO_CONTENT   == 204      \* response.status == 204, line 487
HTTP_2XX_LOW      == 200      \* 200 <= response.status, line 282
HTTP_2XX_HIGH     == 300      \* response.status < 300, line 282
NoStatus          == 0        \* a message that embeds no HTTP status

Callers      == 1..NumCallers
TokenStrings == 1..NumTokens
\* Instants at which the clock is read.  They straddle the expiry of a token
\* fetched at 0 with expires_in = 100 (0 + 100 - 60 = 40).
TimePoints == {0, 40, MaxTime}

VARIABLES
    access_token,      \* self._access_token
    token_expires_at,  \* self._token_expires_at
    now,               \* time.time()
    task,              \* per caller: the coroutine's position and locals
    stored,            \* history: the token response the cache was last
                       \* written from, when it was written whole
    environment,       \* self._environment
    close_session,     \* self._close_session
    session_closed,    \* self._session.closed
    scope,             \* where the "async with client" block stands
    close_returned,    \* history: a call of close() has returned
    credentials,       \* self._client_id, _client_secret, _project_id
    constructed,       \* "no", "yes", or "ValueError" when __init__ raised
    session_created,   \* history: __init__ called aiohttp.ClientSession()
    prev_page          \* history: the account ids of the last page that
                       \* get_accounts returned to a call that gave a limit

\* The client's configuration and the life cycle of its session.
lifecycle == <<environment, close_session, session_closed, scope, close_returned,
               credentials, constructed, session_created>>

vars == <<access_token, token_expires_at, now, task, stored,
          environment, close_session, session_closed, scope, close_returned,
          credentials, constructed, session_created, prev_page>>

\* ------------------------------------------------------------ the methods
RequestOps ==
    {"create_connect_token", "get_accounts", "get_account_by_id",
     "get_components", "get_component", "reload_component_props",
     "run_action", "deploy_trigger", "get_deployed_triggers",
     "get_deployed_trigger", "get_deployed_trigger_events",
     "get_deployed_trigger_webhooks", "update_deployed_trigger_webhooks",
     "get_deployed_trigger_workflows", "update_deployed_trigger_workflows",
     "create_rate_limit"}
DeleteOps ==
    {"delete_account", "delete_accounts_by_app", "delete_external_user",
     "delete_deployed_trigger"}
\* _get_access_token and _request are called on their own as well.
CoreOps == {"get_access_token", "request"}
AllOps  == RequestOps \cup DeleteOps \cup CoreOps

\* ------------------------------------------------------------- arguments
\* Python values are tags; Falsy is Python's "not v".
IdVals  == {"None", "", "id"}
OptVals == {"None", "", "v"}
NumVals == {"None", "0", "-1", "1"}
TypeVals == {"triggers", "actions", "components", "bogus"}
valid_types == {"triggers", "actions", "components"}

Falsy(v) == v \in {"None", "", "0", "[]"}
Truthy(v) == ~Falsy(v)
NonPositive(v) == v \in {"0", "-1"}

DefaultArgs ==
    [id1 |-> "id", id2 |-> "id", ctype |-> "triggers",
     webhook_url |-> "None", workflow_id |-> "None", n1 |-> "1", n2 |-> "1",
     limit |-> "None", cursor |-> "None", origins |-> "None",
     requires_auth |-> TRUE]

OneId  == {[DefaultArgs EXCEPT !.id1 = a] : a \in IdVals}
TwoIds == {[DefaultArgs EXCEPT !.id1 = a, !.id2 = b] : a \in IdVals, b \in IdVals}

\* The arguments each method takes (those its validation and its
\* destination fields read).
ArgSpace(op) ==
    CASE op \in {"create_connect_token", "get_account_by_id", "delete_account",
                 "delete_accounts_by_app", "delete_external_user",
                 "get_deployed_triggers"} -> OneId
      [] op = "get_components" ->
            {[DefaultArgs EXCEPT !.ctype = c] : c \in TypeVals}
      [] op = "get_component" ->
            {[DefaultArgs EXCEPT !.ctype = c, !.id1 = a] :
                c \in TypeVals, a \in IdVals}
      [] op = "reload_component_props" ->
            {[a EXCEPT !.ctype = c] : a \in TwoIds, c \in TypeVals}
      [] op = "deploy_trigger" ->
            {[a EXCEPT !.webhook_url = w, !.workflow_id = f] :
                a \in TwoIds, w \in OptVals, f \in OptVals}
      [] op = "create_rate_limit" ->
            {[DefaultArgs EXCEPT !.n1 = x, !.n2 = y] :
                x \in NumVals, y \in NumVals}
      [] op = "request" ->
            {[DefaultArgs EXCEPT !.requires_auth = r] : r \in BOOLEAN}
      [] op \in {"run_action", "get_deployed_trigger", "delete_deployed_trigger",
                 "get_deployed_trigger_events",
                 "get_deployed_trigger_webhooks",
                 "update_deployed_trigger_webhooks",
                 "get_deployed_trigger_workflows",
                 "update_deployed_trigger_workflows"} -> TwoIds
      [] OTHER -> {DefaultArgs}

NoArgs ==
    [id1 |-> "-", id2 |-> "-", ctype |-> "-", webhook_url |-> "-",
     workflow_id |-> "-", n1 |-> "-", n2 |-> "-",
     limit |-> "-", cursor |-> "-", origins |-> "-",
     requires_auth |-> FALSE]

\* Mutant: only the first identifier is checked.
BothPresent_first_only(a) == Truthy(a.id1)

\* "if not all([x, y])", for instance lines 834, 934, 970.
BothPresent(a) == Truthy(a.id1) /\ Truthy(a.id2)

\* Mutant: the conflict of the two destinations is not checked.
DestinationsExclusive_unchecked(a) == TRUE

\* "if webhook_url and workflow_id: raise", line 836.
DestinationsExclusive(a) == ~(Truthy(a.webhook_url) /\ Truthy(a.workflow_id))

\* The guard each method opens with; FALSE is "raise ValueError(...)".
ArgumentsValid(op, a) ==
    CASE op \in {"create_connect_token", "get_account_by_id", "delete_account",
                 "delete_accounts_by_app", "delete_external_user",
                 "get_deployed_triggers"} -> Truthy(a.id1)
      [] op = "get_components" -> a.ctype \in valid_types
      [] op = "get_component" -> a.ctype \in valid_types /\ Truthy(a.id1)
      [] op = "reload_component_props" ->
            a.ctype \in valid_types /\ BothPresent(a)
      [] op \in {"run_action", "get_deployed_trigger", "delete_deployed_trigger",
                 "get_deployed_trigger_events",
                 "get_deployed_trigger_webhooks",
                 "update_deployed_trigger_webhooks",
                 "get_deployed_trigger_workflows",
                 "update_deployed_trigger_workflows"} -> BothPresent(a)
      [] op = "deploy_trigger" -> BothPresent(a) /\ DestinationsExclusive(a)
      [] op = "create_rate_limit" ->
            /\ ~(Falsy(a.n1) \/ NonPositive(a.n1))
            /\ ~(Falsy(a.n2) \/ NonPositive(a.n2))
      [] OTHER -> TRUE

\* The destination fields deploy_trigger puts into its JSON body.
DestinationFields(op, a) ==
    IF op = "deploy_trigger"
    THEN (IF Truthy(a.webhook_url) THEN {"webhook_url"} ELSE {})
         \cup (IF Truthy(a.workflow_id) THEN {"workflowId"} ELSE {})
    ELSE {}

\* Mutant: a token is obtained whatever requires_auth says.
NeedsToken_always(op, a) == TRUE

\* The optional fields a method puts into its query string or JSON body:
\* "if limit:", "if cursor:" (lines 386-389, 639-642, 897-902),
\* "if limit is not None:" (line 1028), "if allowed_origins:" (line 327).
OptionalFields(op, a) ==
    CASE op \in {"get_accounts", "get_components", "get_deployed_triggers"} ->
            (IF Truthy(a.limit) THEN {"limit"} ELSE {})
            \cup (IF Truthy(a.cursor) THEN {"cursor"} ELSE {})
      [] op = "get_deployed_trigger_events" ->
            IF a.limit # "None" THEN {"limit"} ELSE {}
      [] op = "create_connect_token" ->
            IF Truthy(a.origins) THEN {"allowed_origins"} ELSE {}
      [] OTHER -> {}

\* The optional fields of the request as it is sent.
SentFields(op, a) == DestinationFields(op, a) \cup OptionalFields(op, a)

\* Whether the method obtains a bearer token before its resource request.
NeedsToken(op, a) == IF op = "request" THEN a.requires_auth ELSE TRUE

\* ------------------------------------------------------- results, errors
\* What a call ends with: a result ("ok") or an exception class, the HTTP
\* status its message embeds (NoStatus when it embeds none) and the text
\* its message carries.
Outcome(k, s, d) == [kind |-> k, status |-> s, detail |-> d]
NoOutcome == Outcome("none", NoStatus, "")

\* ------------------------------------------------------- the token fetch
TokenStatuses == {HTTP_OK, 401, 500}
ExpiresInVals == {60, 100}

\* What the transport hands back for the POST of line 237.
\*   kind  "ClientError"  an aiohttp.ClientError (connection failure)
\*         "Timeout"      asyncio.TimeoutError, which is no ClientError
\*         "response"     a response with a status line
\*   shape of a 200 body, as response.json() (line 239) finds it:
\*         "object" a JSON object, "nonobject" JSON that is no object,
\*         "bad_json" undecodable (ValueError), "not_json" a content type
\*         that is not JSON (ContentTypeError, a ClientError),
\*         "read_error" the connection breaks while the body is read;
\*   shape of any other body, as response.text() (line 248) finds it:
\*         "text" readable, "read_error".
\*   token_kind, token: the access_token field of a JSON object ("absent",
\*         "empty" for "", "string" with the string's identity in token);
\*   expires_kind, expires_in: its expires_in field ("absent", "number"
\*         with the value, "nonnumber" for a string or null).
TokenReply(k, s, sh, tk, tv, ek, e, tx) ==
    [kind |-> k, status |-> s, shape |-> sh, token_kind |-> tk, token |-> tv,
     expires_kind |-> ek, expires_in |-> e, text |-> tx]
NoTokenReply ==
    TokenReply("none", NoStatus, "none", "absent", NoneToken, "absent", 0, "")
FailedReply(k, s, sh, tx) ==
    TokenReply(k, s, sh, "absent", NoneToken, "absent", 0, tx)
TokenFields ==
    {<<"absent", NoneToken>>, <<"empty", NoneToken>>}
    \cup {<<"string", v>> : v \in TokenStrings}

TokenReplies ==
    {FailedReply("ClientError", NoStatus, "none", ""),
     FailedReply("Timeout", NoStatus, "none", "")}
    \cup {FailedReply("response", HTTP_OK, sh, "") :
            sh \in {"nonobject", "bad_json", "not_json", "read_error"}}
    \cup {TokenReply("response", HTTP_OK, "object", tf[1], tf[2], "number", e, "") :
            tf \in TokenFields, e \in ExpiresInVals}
    \cup {TokenReply("response", HTTP_OK, "object", tf[1], tf[2], ek, 0, "") :
            tf \in TokenFields, ek \in {"absent", "nonnumber"}}
    \cup {FailedReply("response", s, "text", "invalid_client") :
            s \in TokenStatuses \ {HTTP_OK}}
    \cup {FailedReply("response", s, "read_error", "") :
            s \in TokenStatuses \ {HTTP_OK}}

\* "if self._access_token" (lines 225, 244): None and "" are falsy.
TokenTruthy(tok) == tok > NoneToken

\* Mutant: the safety margin is subtracted a second time at the check.
CachedTokenUsable_margin_twice(tok, exp, t) == TokenTruthy(tok) /\ t < exp - MARGIN

\* Mutant: the token is served up to and including the instant of expiry.
CachedTokenUsable_inclusive(tok, exp, t) == TokenTruthy(tok) /\ t <= exp

\* Line 225: the cached token is served.
CachedTokenUsable(tok, exp, t) == TokenTruthy(tok) /\ t < exp

\* Mutant: the safety margin is forgotten.
ExpiresAt_no_margin(t, e) == t + e

\* Line 243: time.time() + expires_in - 60.
ExpiresAt(t, e) == t + e - MARGIN

\* Line 238.
TokenStatusOk(s) == s = HTTP_OK

\* Mutant: the token of the response is not looked at, every response is
\* taken to carry the first token.
ResponseToken_first(r) == IF r.token_kind = "string" THEN 1 ELSE NoneToken

\* data.get("access_token"), line 240.
ResponseToken(r) ==
    CASE r.token_kind = "string" -> r.token
      [] r.token_kind = "empty"  -> EmptyToken
      [] OTHER                   -> NoneToken

\* data.get("expires_in", 3600), line 242.
ResponseExpiresIn(r) ==
    IF r.expires_kind = "absent" THEN DEFAULT_EXPIRES ELSE r.expires_in

\* Lines 236-253 on the outcome r of the POST, with the cache (tok, exp) and
\* the clock t as they are when the body has been read: the cache as the
\* block leaves it, the token it returns, and what it ends with.
FetchResult(tok, exp, got, out) ==
    [access_token |-> tok, token_expires_at |-> exp, got |-> got, out |-> out]

\* Mutant: no "except aiohttp.ClientError", the transport's error escapes.
NetworkAuthError_unwrapped == Outcome("ClientError", NoStatus, "network")
\* Lines 252-253.
NetworkAuthError == Outcome("AuthError", NoStatus, "network")
\* Line 245.
MissingTokenError == Outcome("AuthError", NoStatus, "access_token missing")
\* Mutant: the message leaves the body text out.
StatusAuthError_no_text(r) == Outcome("AuthError", r.status, "")
\* Lines 249-251.
StatusAuthError(r) == Outcome("AuthError", r.status, r.text)

\* Mutant: the token that was cached before the fetch is returned.
ReturnedToken_stale(old, new) == old

\* Line 246, "return self._access_token", which line 240 has just set: old
\* is the token that was cached before, new the one of this response.
ReturnedToken(old, new) == new

ProcessTokenReply(r, tok, exp, t) ==
    CASE r.kind = "ClientError" -> FetchResult(tok, exp, NoneToken, NetworkAuthError)
      [] r.kind = "Timeout" ->
            FetchResult(tok, exp, NoneToken, Outcome("TimeoutError", NoStatus, ""))
      [] r.kind = "response" /\ TokenStatusOk(r.status) ->
            CASE r.shape \in {"not_json", "read_error"} ->
                    FetchResult(tok, exp, NoneToken, NetworkAuthError)
              [] r.shape = "bad_json" ->
                    FetchResult(tok, exp, NoneToken,
                                Outcome("JSONDecodeError", NoStatus, ""))
              [] r.shape = "nonobject" ->        \* data.get on a list or None
                    FetchResult(tok, exp, NoneToken,
                                Outcome("AttributeError", NoStatus, ""))
              [] OTHER ->
                    LET newtok == ResponseToken(r) IN
                    IF r.expires_kind = "nonnumber"
                    THEN \* line 240 has run, line 243 raises
                         FetchResult(newtok, exp, NoneToken,
                                     Outcome("TypeError", NoStatus, ""))
                    ELSE LET newexp == ExpiresAt(t, ResponseExpiresIn(r)) IN
                         IF ~TokenTruthy(newtok)
                         THEN FetchResult(newtok, newexp, NoneToken, MissingTokenError)
                         ELSE FetchResult(newtok, newexp, ReturnedToken(tok, newtok),
                                          Outcome("ok", NoStatus, "token"))
      [] OTHER ->
            IF r.shape = "text"
            THEN FetchResult(tok, exp, NoneToken, StatusAuthError(r))
            ELSE FetchResult(tok, exp, NoneToken, NetworkAuthError)

\* -------------------------------------------------- the resource request
ResourceStatuses == {HTTP_OK, 201, HTTP_NO_CONTENT, 404}

\* The body of a resource response, as response.json() finds it:
\*   "obj_ok"     a JSON object of the shape the method documents
\*   "obj_bad"    a JSON object that lacks a key the method requires
\*   "err_msg"    {"error": {"message": ...}}
\*   "err_nomsg"  {"error": {}}
\*   "err_str"    {"error": <not an object>}
\*   "list"       JSON that is no object but supports "in" (list, string)
\*   "null"       JSON that supports neither .get nor "in" (null, number)
\*   "bad_json"   a JSON content type, undecodable: ValueError
\*   "not_json"   another content type, or none (an empty body):
\*                aiohttp.ContentTypeError
JsonShapes == {"obj_ok", "obj_bad", "err_msg", "err_nomsg", "err_str", "list", "null"}
BodyShapes == JsonShapes \cup {"bad_json", "not_json"}

ResourceReply(k, s, sh) == [kind |-> k, status |-> s, shape |-> sh]
NoResourceReply == ResourceReply("none", NoStatus, "none")
ResourceReplies ==
    {ResourceReply("ClientError", NoStatus, "none"),
     ResourceReply("Timeout", NoStatus, "none")}
    \cup {ResourceReply("response", s, sh) : s \in ResourceStatuses, sh \in BodyShapes}
\* A "ClientError" is a connection failure at either await of the handler:
\* while the request is sent or while the body is read.

\* response.text(): the body as it was sent.
BodyText(sh) == "text of " \o sh
\* str(error_data) / the f-string's rendering of response_data.
Rendered(sh) == "repr of " \o sh
ServerMessage == "server message"

NetworkApiError == Outcome("ApiError", NoStatus, "network")   \* lines 289, 500

\* Lines 288-289 on the ContentTypeError of response.json() (line 281): the
\* exception's text names the status and the content type, not the body.
ContentTypeApiError(r) == Outcome("ApiError", r.status, "unexpected mimetype")

\* Mutant: no "except ValueError", the decoder's error escapes.
DecodeApiError_unhandled(r) == Outcome("JSONDecodeError", NoStatus, "")

\* Lines 290-292: the ValueError of response.json() becomes ApiError with the
\* status and the body text.
DecodeApiError(r) == Outcome("ApiError", r.status, BodyText(r.shape))

\* Mutant: the upper end of the range is not checked.
StatusIsSuccess_no_upper(s) == HTTP_2XX_LOW <= s

\* Line 282.
StatusIsSuccess(s) == HTTP_2XX_LOW <= s /\ s < HTTP_2XX_HIGH

\* data.get('error', {}).get('message', default) of lines 286 and 493:
\* "raises" when an operand has no .get.
ErrorMessage(sh) ==
    CASE sh = "err_msg" -> ServerMessage
      [] sh \in {"obj_ok", "obj_bad", "err_nomsg"} -> Rendered(sh)
      [] OTHER -> "raises"

\* Lines 277-292: what _request ends with on the reply r.
RequestOutcome(r) ==
    CASE r.kind = "ClientError" -> NetworkApiError
      [] r.kind = "Timeout" -> Outcome("TimeoutError", NoStatus, "")
      [] r.shape = "not_json" -> ContentTypeApiError(r)
      [] r.shape = "bad_json" -> DecodeApiError(r)
      [] StatusIsSuccess(r.status) -> Outcome("ok", NoStatus, r.shape)
      [] ErrorMessage(r.shape) = "raises" -> Outcome("AttributeError", NoStatus, "")
      [] OTHER -> Outcome("ApiError", r.status, ErrorMessage(r.shape))

\* The structural check a resource method makes on what _request returned
\* (for instance lines 339-340, 394-395, 444-447): "k in response_data".
ShapeOutcome(data) ==
    CASE data = "obj_ok" -> Outcome("ok", NoStatus, "result")
      [] data = "null"   -> Outcome("TypeError", NoStatus, "")
      [] OTHER           -> Outcome("ApiError", NoStatus, "unexpected format")

\* Line 487 (535, 581, 989).
DeleteSucceeded(s) == s = HTTP_NO_CONTENT

\* Lines 485-500 (533-547, 579-593, 987-999): what a delete ends with.
DeleteOutcome(r) ==
    CASE r.kind = "ClientError" -> NetworkApiError
      [] r.kind = "Timeout" -> Outcome("TimeoutError", NoStatus, "")
      [] DeleteSucceeded(r.status) -> Outcome("ok", NoStatus, "None")
      [] r.shape \in {"bad_json", "not_json"} ->      \* lines 494-495
            Outcome("ApiError", r.status, BodyText(r.shape))
      [] ErrorMessage(r.shape) = "raises" -> Outcome("AttributeError", NoStatus, "")
      [] OTHER -> Outcome("ApiError", r.status, ErrorMessage(r.shape))

\* Mutant: a data field that is a list already is not accepted.
AccountsOutcome_object_only(data) ==
    CASE data = "obj_ok" -> Outcome("ok", NoStatus, "page_info, data.accounts")
      [] data = "null"   -> Outcome("TypeError", NoStatus, "")
      [] data \in {"data_list", "data_other"} ->
            Outcome("ApiError", NoStatus, "unexpected data")
      [] OTHER           -> Outcome("ApiError", NoStatus, "unexpected format")

\* Lines 394-411: get_accounts on what _request returned.  "obj_ok" is
\* {page_info, data: {accounts: [...]}}, "data_list" is {page_info, data:
\* [...]}, "data_other" is {page_info, data: <anything else>}; every other
\* object lacks page_info or data.
AccountsOutcome(data) ==
    CASE data = "obj_ok"     -> Outcome("ok", NoStatus, "page_info, data.accounts")
      [] data = "data_list"  -> Outcome("ok", NoStatus, "page_info, data")
      [] data = "data_other" -> Outcome("ApiError", NoStatus, "unexpected data")
      [] data = "null"       -> Outcome("TypeError", NoStatus, "")
      [] OTHER               -> Outcome("ApiError", NoStatus, "unexpected format")

\* What the method ends with once its resource request has been answered.
ResourceOutcome(op, r) ==
    IF op \in DeleteOps THEN DeleteOutcome(r)
    ELSE LET o == RequestOutcome(r) IN
         IF op = "request" \/ o.kind # "ok" THEN o
         ELSE IF op = "get_accounts" THEN AccountsOutcome(o.detail)
         ELSE ShapeOutcome(o.detail)

\* The remote account listing: a stable set of accounts served in pages of
\* two, the second page to a request whose query names the forward cursor
\* under "after"; any other query parameter does not select a page.
FirstPage == {1, 2}
NextPage  == {3, 4}
ServerPage(keys) == IF "after" \in keys THEN NextPage ELSE FirstPage

\* The account ids in the result of a call that sent the fields keys and
\* ended with out.
ReturnedPage(op, keys, out) ==
    IF op = "get_accounts" /\ out.kind = "ok" THEN ServerPage(keys) ELSE {}

\* ------------------------------------------------------------ the callers
\* pc: "idle", "token_wait" (suspended in line 237), "resource_wait"
\* (suspended in line 278 or 486), "done" (the call has ended with out).
\* args: the arguments, kept until the call's first request is answered.
\* cache: whether line 225 served the cached token ("hit") or not ("miss");
\* seen, was_expired: the token cached when line 225 ran, and whether the
\* clock had reached token_expires_at then.
\* got: what _get_access_token returned to this call; bearer: the token in
\* the Authorization header of the resource request; dest: the destination
\* and optional fields of its body and query string; page: the account
\* ids of the page a listing of accounts returned; env_header: its X-PD-Environment header ("absent"
\* when it has none); token_posts, resource_posts: requests this call has
\* sent; token_reply, resource_reply: what came back.
IdleTask ==
    [pc |-> "idle", op |-> "none", args |-> NoArgs, cache |-> "none",
     seen |-> NoneToken, was_expired |-> FALSE,
     got |-> NoneToken, bearer |-> NoneToken,
     dest |-> {}, env_header |-> "absent", page |-> {},
     token_posts |-> 0, resource_posts |-> 0,
     token_reply |-> NoTokenReply, resource_reply |-> NoResourceReply,
     out |-> NoOutcome]

Stored(v, t, e) == [valid |-> v, at |-> t, expires_in |-> e]
NothingStored == Stored(FALSE, 0, 0)

\* Lines 199-201 for arguments that pass the check of line 196.
GivenCredentials ==
    [client_id |-> "id", client_secret |-> "secret", project_id |-> "proj"]

\* environment: Optional[str] = None (line 183), "" and a name.
EnvVals == {"None", "", "development"}

\* Mutant: only client_id is looked at.
CredentialsValid_partial(creds) == Truthy(creds.client_id)

\* Line 196: "if not client_id or not client_secret or not project_id".
CredentialsValid(creds) ==
    Truthy(creds.client_id) /\ Truthy(creds.client_secret) /\ Truthy(creds.project_id)

\* The object as lines 199-207 leave it for the arguments creds,
\* environment = env and session = None (external FALSE) or a session of
\* the caller's.
Constructed(creds, env, external) ==
    /\ access_token = NoneToken         \* line 206
    /\ token_expires_at = InitialExpiresAt  \* line 207
    /\ now = 0
    /\ task = [t \in Callers |-> IdleTask]
    /\ stored = NothingStored
    /\ environment = env
    /\ close_session = ~external       \* line 204: session is None
    /\ session_closed = FALSE
    /\ scope = "outside"
    /\ close_returned = FALSE
    /\ credentials = creds
    /\ constructed = "yes"
    /\ session_created = ~external     \* line 203: aiohttp.ClientSession()
    /\ prev_page = {}

\* __init__, lines 196-207, for credentials that pass the check of line 196.
Construct(env, external) == Constructed(GivenCredentials, env, external)

\* PipedreamClient(client_id, client_secret, project_id): the defaults.
Init == Construct("None", FALSE)

\* Lines 274-275 (482-483, 530-531, 576-577, 984-985): the header is set
\* when the configured environment is truthy.
EnvironmentHeader(env) == IF Truthy(env) THEN env ELSE "absent"

\* The caller sends its resource request (line 278 / 486) with token tok.
SendResource(tk, tok, dest) ==
    [tk EXCEPT !.pc = "resource_wait", !.got = tok, !.bearer = tok,
               !.dest = dest, !.env_header = EnvironmentHeader(environment),
               !.resource_posts = @ + 1]

\* Mutant: a failed token request is sent once more.
EndWith_retry(tk, out) ==
    IF out.kind = "AuthError" /\ tk.pc = "token_wait" /\ tk.token_posts < 2
    THEN [tk EXCEPT !.token_posts = @ + 1]
    ELSE [tk EXCEPT !.pc = "done", !.out = out]

\* The exception out leaves the method (lines 245, 249-253, 285-292): the
\* call is over, nothing is sent after it.
EndWith(tk, out) == [tk EXCEPT !.pc = "done", !.out = out]

\* A method is called with arguments a and runs to its first await.
Call(t, op, a) ==
    /\ task[t].pc = "idle"
    /\ LET started == [IdleTask EXCEPT !.op = op, !.args = a] IN
       task' = [task EXCEPT ![t] =
         IF ~ArgumentsValid(op, a)
         THEN [started EXCEPT !.pc = "done",
                              !.out = Outcome("ValueError", NoStatus, "required")]
         ELSE IF ~NeedsToken(op, a)
         THEN SendResource(started, NoneToken, SentFields(op, a))
         ELSE LET checked == [started EXCEPT
                                !.seen = access_token,
                                !.was_expired = (now >= token_expires_at),
                                !.dest = SentFields(op, a)] IN
              IF CachedTokenUsable(access_token, token_expires_at, now)
              THEN IF op = "get_access_token"
                   THEN [checked EXCEPT !.pc = "done", !.cache = "hit",
                                        !.got = access_token,
                                        !.out = Outcome("ok", NoStatus, "token")]
                   ELSE SendResource([checked EXCEPT !.cache = "hit"],
                                     access_token, checked.dest)
              ELSE [checked EXCEPT !.pc = "token_wait", !.cache = "miss",
                                   !.token_posts = @ + 1]]
    /\ UNCHANGED <<access_token, token_expires_at, now, stored, prev_page>>
    /\ UNCHANGED lifecycle

\* Mutant: the exception of the token fetch is caught by the method's
\* handler for transport errors and raised again as the API's error.
Propagated_wrapped(op, out) ==
    IF op # "get_access_token" /\ out.kind = "AuthError"
    THEN Outcome("ApiError", out.status, out.detail)
    ELSE out

\* Lines 270-272 (485-486): _get_access_token is awaited before the try
\* block of line 277 (489), so what it raises leaves the method as it is.
Propagated(op, out) == out

\* The token POST of caller t completes with r.
TokenResponse(t, r) ==
    /\ task[t].pc = "token_wait"
    /\ LET f == ProcessTokenReply(r, access_token, token_expires_at, now)
           tk == [task[t] EXCEPT !.token_reply = r, !.args = NoArgs]
       IN /\ access_token' = f.access_token
          /\ token_expires_at' = f.token_expires_at
          /\ task' = [task EXCEPT ![t] =
                IF f.out.kind # "ok"
                THEN EndWith(tk, Propagated(tk.op, f.out))
                ELSE IF tk.op = "get_access_token"
                THEN [tk EXCEPT !.pc = "done", !.got = f.got, !.out = f.out]
                ELSE SendResource(tk, f.got, tk.dest)]
    /\ stored' =
         IF r.kind = "response" /\ r.status = 200 /\ r.shape = "object"
         THEN IF r.token_kind = "string" /\ r.expires_kind # "nonnumber"
              THEN Stored(TRUE, now, ResponseExpiresIn(r))
              ELSE NothingStored
         ELSE stored
    /\ UNCHANGED <<now, prev_page>>
    /\ UNCHANGED lifecycle

\* The resource request of caller t completes with r.
ResourceResponse(t, r) ==
    /\ task[t].pc = "resource_wait"
    /\ task' = [task EXCEPT ![t] =
            [@ EXCEPT !.pc = "done", !.resource_reply = r, !.args = NoArgs,
                      !.seen = NoneToken, !.was_expired = FALSE,
                      !.token_reply = NoTokenReply,
                      !.page = ReturnedPage(task[t].op, task[t].dest,
                                            ResourceOutcome(task[t].op, r)),
                      !.out = ResourceOutcome(task[t].op, r)]]
    /\ prev_page' = prev_page
    /\ UNCHANGED <<access_token, token_expires_at, now, stored>>
    /\ UNCHANGED lifecycle

\* The caller takes the result or the exception.
Return(t) ==
    /\ task[t].pc = "done"
    /\ task' = [task EXCEPT ![t] = IdleTask]
    /\ prev_page' = IF task[t].page # {} /\ "limit" \in task[t].dest
                    THEN task[t].page ELSE prev_page
    /\ UNCHANGED <<access_token, token_expires_at, now, stored>>
    /\ UNCHANGED lifecycle

\* The wall clock moves on.
Tick ==
    /\ \E x \in TimePoints : x > now /\ now' = x
    /\ UNCHANGED <<access_token, token_expires_at, task, stored, prev_page>>
    /\ UNCHANGED lifecycle

\* One caller at a time, every method.
Solo == {1}
Next ==
    \/ \E t \in Solo, op \in AllOps : \E a \in ArgSpace(op) : Call(t, op, a)
    \/ \E t \in Solo, r \in TokenReplies : TokenResponse(t, r)
    \/ \E t \in Solo, r \in ResourceReplies : ResourceResponse(t, r)
    \/ \E t \in Solo : Return(t)
    \/ Tick

Spec == Init /\ [][Next]_vars

\* Overlapping callers of the token manager.  The clock stands still, and
\* the token endpoint answers with a token that is expired on arrival
\* (expires_in = 60), with one that is not (100), with a token and an
\* expires_in that is no number, with a 200 that lacks the token, or with 401.
ConcurrentOps == {"get_access_token"}
ConcurrentReplies ==
    {TokenReply("response", HTTP_OK, "object", "string", v, "number", e, "") :
        v \in TokenStrings, e \in ExpiresInVals}
    \cup {TokenReply("response", HTTP_OK, "object", "string", NumTokens, "nonnumber", 0, ""),
          TokenReply("response", HTTP_OK, "object", "absent", NoneToken, "number", 60, ""),
          FailedReply("response", 401, "text", "invalid_client")}
NextConcurrent ==
    \/ \E t \in Callers, op \in ConcurrentOps : \E a \in ArgSpace(op) : Call(t, op, a)
    \/ \E t \in Callers, r \in ConcurrentReplies : TokenResponse(t, r)
    \/ \E t \in Callers : Return(t)

SpecConcurrent == Init /\ [][NextConcurrent]_vars

\* ------------------------------------------------- the session's life cycle
\* Mutant: the flag of line 204 is not consulted.
ShouldClose_always(own, closed) == ~closed

\* Line 217: the session is closed when the client created it itself and it
\* is not closed yet.
ShouldClose(own, closed) == own /\ ~closed

\* Mutant: close() forgets the cached token as well.
Close_clears_cache ==
    /\ session_closed' = (session_closed \/ ShouldClose(close_session, session_closed))
    /\ close_returned' = TRUE
    /\ access_token' = NoneToken
    /\ token_expires_at' = InitialExpiresAt
    /\ UNCHANGED <<now, task, stored, environment, close_session, scope,
                   credentials, constructed, session_created, prev_page>>

\* close(), lines 215-218.
Close ==
    /\ session_closed' = (session_closed \/ ShouldClose(close_session, session_closed))
    /\ close_returned' = TRUE
    /\ UNCHANGED <<access_token, token_expires_at, now, task, stored,
                   environment, close_session, scope,
                   credentials, constructed, session_created, prev_page>>

\* __aenter__, lines 209-210: "async with client" is entered.
Enter ==
    /\ scope = "outside"
    /\ scope' = "inside"
    /\ UNCHANGED <<access_token, token_expires_at, now, task, stored,
                   environment, close_session, session_closed, close_returned,
                   credentials, constructed, session_created, prev_page>>

\* __aexit__, lines 212-213: the block is left, by its end (exc FALSE) or by
\* an exception raised in it (exc TRUE); either way close() is awaited.
Exit(exc) ==
    /\ scope = "inside"
    /\ scope' = IF exc THEN "left_by_exception" ELSE "left"
    /\ session_closed' = (session_closed \/ ShouldClose(close_session, session_closed))
    /\ UNCHANGED <<access_token, token_expires_at, now, task, stored,
                   environment, close_session, close_returned,
                   credentials, constructed, session_created, prev_page>>

\* Every configuration of the constructor, the life cycle of the session,
\* and the two kinds of resource call while the session is open.
ClientOps == {"request", "delete_account"}
InitClient == \E env \in EnvVals, external \in BOOLEAN : Construct(env, external)
NextClient ==
    \/ \E t \in Solo, op \in ClientOps : \E a \in ArgSpace(op) :
            ~session_closed /\ Call(t, op, a)
    \/ \E t \in Solo, r \in TokenReplies : TokenResponse(t, r)
    \/ \E t \in Solo, r \in ResourceReplies : ResourceResponse(t, r)
    \/ \E t \in Solo : Return(t)
    \/ Enter
    \/ \E exc \in BOOLEAN : Exit(exc)
    \/ Close

SpecClient == InitClient /\ [][NextClient]_vars

\* ------------------------------------------- listings and optional fields
\* The methods that take a page size and a cursor, and those that take
\* another optional argument, called with each kind of optional value:
\* left out (None), given but falsy (0, "", []), given and truthy.
ListingOps == {"get_accounts", "get_components", "get_deployed_triggers"}
ParamOps == ListingOps \cup {"get_deployed_trigger_events", "create_connect_token"}
LimitVals  == {"None", "0", "2"}
CursorVals == {"None", "", "c1"}
OriginVals == {"None", "[]", "v"}

ParamSpace(op) ==
    CASE op \in ListingOps ->
            {[DefaultArgs EXCEPT !.limit = l, !.cursor = c] :
                l \in LimitVals, c \in CursorVals}
      [] op = "get_deployed_trigger_events" ->
            {[DefaultArgs EXCEPT !.limit = l] : l \in LimitVals}
      [] OTHER ->
            {[DefaultArgs EXCEPT !.origins = o] : o \in OriginVals}

\* What the server answers to these calls; a listing of accounts may come
\* with its data field in either of the two shapes, or in neither.
ListingReplies(op) ==
    {ResourceReply("ClientError", NoStatus, "none"),
     ResourceReply("response", HTTP_OK, "obj_ok"),
     ResourceReply("response", HTTP_OK, "obj_bad"),
     ResourceReply("response", 404, "err_msg")}
    \cup (IF op = "get_accounts"
          THEN {ResourceReply("response", HTTP_OK, "data_list"),
                ResourceReply("response", HTTP_OK, "data_other")}
          ELSE {})

NextListing ==
    \/ \E t \in Solo, op \in ParamOps : \E a \in ParamSpace(op) : Call(t, op, a)
    \/ \E t \in Solo, r \in TokenReplies : TokenResponse(t, r)
    \/ \E t \in Solo : \E r \in ListingReplies(task[t].op) : ResourceResponse(t, r)
    \/ \E t \in Solo : Return(t)

SpecListing == Init /\ [][NextListing]_vars

\* ================================================================ claims
\* The call of caller t is between line 225 and the answer to its resource
\* request: seen and was_expired describe the cache as line 225 found it.
TokenChecked(t) ==
    /\ task[t].pc # "idle"
    /\ task[t].cache # "none"
    /\ task[t].resource_reply.kind = "none"

ViaRequest == RequestOps \cup {"request"}

\* C1. Token reuse: a call that finds a non-empty token cached and the clock
\* strictly before token_expires_at gets exactly that token from
\* _get_access_token and sends no request to the token endpoint.
C1_TokenReuse ==
    \A t \in Callers :
        (TokenChecked(t) /\ task[t].seen \in TokenStrings /\ ~task[t].was_expired)
        => /\ task[t].cache = "hit"
           /\ task[t].pc # "token_wait"
           /\ task[t].token_posts = 0
           /\ task[t].got = task[t].seen

C1_Witness ==
    \E t \in Callers :
        /\ task[t].op = "get_access_token" /\ task[t].pc = "done"
        /\ task[t].seen \in TokenStrings /\ ~task[t].was_expired
        /\ task[t].got = task[t].seen /\ task[t].token_posts = 0
        /\ now > 0

\* C2. Refresh after expiry, one call at a time: a call that finds the clock
\* at or past token_expires_at sends exactly one token POST; the token it
\* is given, and puts into its resource request, is the one of that POST's
\* response, and the cache holds that token afterwards.
C2_RefreshAfterExpiry ==
    \A t \in Callers :
        /\ task[t].cache = "miss" => task[t].token_posts = 1
        /\ task[t].cache = "hit" => task[t].token_posts = 0
        /\ (TokenChecked(t) /\ task[t].was_expired)
           => /\ task[t].cache = "miss"
              /\ (task[t].pc = "resource_wait" \/ task[t].out.kind = "ok")
                 => /\ task[t].token_reply.kind = "response"
                    /\ task[t].token_reply.status = 200
                    /\ task[t].token_reply.token_kind = "string"
                    /\ task[t].got = task[t].token_reply.token
                    /\ access_token = task[t].token_reply.token
                    /\ task[t].pc = "resource_wait"
                       => /\ task[t].bearer = task[t].token_reply.token
                          /\ task[t].resource_posts = 1

C2_Witness ==
    \E t \in Callers :
        /\ task[t].pc = "resource_wait" /\ task[t].was_expired
        /\ task[t].seen \in TokenStrings
        /\ task[t].token_reply.token # task[t].seen
        /\ task[t].bearer = task[t].token_reply.token
        /\ task[t].token_posts = 1

\* C3. Expiry arithmetic: a token response with expires_in = E stored at
\* time T leaves token_expires_at = T + E - 60; a call at a time before
\* T + E - 60 is served that token without a fetch, a call at or after
\* T + E - 60 sends a token POST.
C3_StoredExpiry ==
    stored.valid => token_expires_at = stored.at + stored.expires_in - 60

C3_CallStep ==
    \A t \in Callers :
        (task[t].pc = "idle" /\ task'[t].pc # "idle" /\ task'[t].cache # "none"
         /\ stored.valid)
        => IF now < stored.at + stored.expires_in - 60
           THEN /\ task'[t].cache = "hit"
                /\ task'[t].got = access_token
                /\ access_token \in TokenStrings
                /\ task'[t].token_posts = 0
           ELSE /\ task'[t].cache = "miss"
                /\ task'[t].pc = "token_wait"
                /\ task'[t].token_posts = 1

C3_ExpiryArithmetic == [](C3_StoredExpiry) /\ [][C3_CallStep]_vars

\* expires_in = 100 stored at T, and a call at exactly T + 40 refreshes.
C3_Witness ==
    \E t \in Callers :
        /\ task[t].pc = "token_wait" /\ task[t].seen \in TokenStrings
        /\ task[t].was_expired
        /\ stored.valid /\ stored.expires_in = 100
        /\ now = stored.at + 40

\* C4. A token response with a status other than 200 ends the call with
\* AuthError and hands the caller no token; when the body text was read the
\* message carries the status and that text.
C4_TokenStatusError ==
    \A t \in Callers :
        (task[t].token_reply.kind = "response" /\ task[t].token_reply.status # 200)
        => /\ task[t].pc = "done"
           /\ task[t].out.kind = "AuthError"
           /\ task[t].got = NoneToken
           /\ task[t].resource_posts = 0
           /\ task[t].token_reply.shape = "text"
              => /\ task[t].out.status = task[t].token_reply.status
                 /\ task[t].out.detail = task[t].token_reply.text

C4_Witness ==
    \E t \in Callers :
        /\ task[t].token_reply.kind = "response"
        /\ task[t].token_reply.status = 401
        /\ task[t].token_reply.shape = "text"
        /\ task[t].out = Outcome("AuthError", 401, "invalid_client")

\* C5. A 200 token response without an access_token field, or with an empty
\* one, ends the call with AuthError, and no token is handed to the caller.
C5_MissingTokenIsAuthError ==
    \A t \in Callers :
        (/\ task[t].token_reply.kind = "response"
         /\ task[t].token_reply.status = 200
         /\ task[t].token_reply.shape = "object"
         /\ task[t].token_reply.token_kind \in {"absent", "empty"})
        => /\ task[t].out.kind = "AuthError"
           /\ task[t].got = NoneToken

\* C6. A connection error of the transport, raised by the token POST or
\* while the token response is read, ends the call with AuthError.
C6_NetworkErrorIsAuthError ==
    \A t \in Callers :
        (\/ task[t].token_reply.kind = "ClientError"
         \/ /\ task[t].token_reply.kind = "response"
            /\ task[t].token_reply.shape = "read_error")
        => /\ task[t].pc = "done"
           /\ task[t].out.kind = "AuthError"
           /\ task[t].got = NoneToken

C6_Witness ==
    \E t \in Callers :
        /\ task[t].token_reply.kind = "response"
        /\ task[t].token_reply.status = 200
        /\ task[t].token_reply.shape = "read_error"
        /\ task[t].out.kind = "AuthError"

\* The identifiers a method documents as required.
RequiredIdentifiers(op) ==
    CASE op \in {"create_connect_token", "get_account_by_id", "delete_account",
                 "delete_accounts_by_app", "delete_external_user",
                 "get_deployed_triggers", "get_component"} -> {"id1"}
      [] op \in {"reload_component_props", "run_action", "deploy_trigger",
                 "get_deployed_trigger", "delete_deployed_trigger",
                 "get_deployed_trigger_events",
                 "get_deployed_trigger_webhooks",
                 "update_deployed_trigger_webhooks",
                 "get_deployed_trigger_workflows",
                 "update_deployed_trigger_workflows"} -> {"id1", "id2"}
      [] OTHER -> {}

MissingRequired(op, a) ==
    \E f \in RequiredIdentifiers(op) : a[f] \in {"None", ""}

\* C7. Validation precedes all I/O: a resource method called with a missing
\* or empty required identifier ends with ValueError, has sent neither a
\* token request nor a resource request, and leaves the token cache as it was.
C7_Validated ==
    \A t \in Callers :
        (task[t].pc # "idle" /\ task[t].args # NoArgs
         /\ MissingRequired(task[t].op, task[t].args))
        => /\ task[t].pc = "done"
           /\ task[t].out.kind = "ValueError"
           /\ task[t].token_posts = 0
           /\ task[t].resource_posts = 0

C7_CacheUntouched ==
    \A t \in Callers :
        (task[t].pc = "idle" /\ task'[t].out.kind = "ValueError")
        => /\ access_token' = access_token
           /\ token_expires_at' = token_expires_at

C7_ValidationBeforeIO == [](C7_Validated) /\ [][C7_CacheUntouched]_vars

C7_Witness ==
    \E t \in Callers :
        /\ task[t].op = "delete_deployed_trigger"
        /\ task[t].args.id1 = "id" /\ task[t].args.id2 = ""
        /\ task[t].out.kind = "ValueError"
        /\ task[t].token_posts = 0 /\ task[t].resource_posts = 0
        /\ access_token \in TokenStrings

\* C8. deploy_trigger with both webhook_url and workflow_id ends with
\* ValueError before any request is sent, and every deploy request that is
\* sent carries at most one of the fields webhook_url and workflowId.
C8_DeployDestinations ==
    \A t \in Callers :
        task[t].op = "deploy_trigger"
        => /\ (task[t].args # NoArgs /\ task[t].args.webhook_url = "v"
               /\ task[t].args.workflow_id = "v")
              => /\ task[t].pc = "done"
                 /\ task[t].out.kind = "ValueError"
                 /\ task[t].token_posts = 0
                 /\ task[t].resource_posts = 0
           /\ task[t].resource_posts > 0
              => Cardinality(task[t].dest \cap {"webhook_url", "workflowId"}) <= 1

C8_Witness ==
    \E t \in Callers :
        /\ task[t].op = "deploy_trigger"
        /\ task[t].args.id1 = "id" /\ task[t].args.id2 = "id"
        /\ task[t].args.webhook_url = "v" /\ task[t].args.workflow_id = "v"
        /\ task[t].out.kind = "ValueError"
        /\ task[t].resource_posts = 0

\* C9. A delete operation answered 204 returns None; answered with any other
\* status it ends with ApiError whose message embeds that status.
C9_DeleteStatus ==
    \A t \in Callers :
        (task[t].op \in DeleteOps /\ task[t].resource_reply.kind = "response")
        => IF task[t].resource_reply.status = 204
           THEN task[t].out = Outcome("ok", NoStatus, "None")
           ELSE /\ task[t].out.kind = "ApiError"
                /\ task[t].out.status = task[t].resource_reply.status

C11_SuccessBodyMapping ==
    \A t \in Callers :
        (/\ task[t].op = "request"
         /\ task[t].resource_reply.kind = "response"
         /\ StatusIsSuccess(task[t].resource_reply.status)
         /\ \/ /\ task[t].resource_reply.status # HTTP_NO_CONTENT
               /\ task[t].resource_reply.shape \in JsonShapes \cup {"not_json"}
            \/ /\ task[t].resource_reply.status = HTTP_NO_CONTENT
               /\ task[t].resource_reply.shape = "not_json")
        => /\ task[t].out.kind = "ok"
           /\ task[t].out.detail =
                IF task[t].resource_reply.status = HTTP_NO_CONTENT THEN "{}"
                ELSE IF task[t].resource_reply.shape = "not_json"
                     THEN "raw_response"
                     ELSE task[t].resource_reply.shape

\* The status of the reply r to a resource request of op is a failure.
FailingStatus(op, r) ==
    /\ r.kind = "response"
    /\ IF op \in DeleteOps THEN ~DeleteSucceeded(r.status)
                           ELSE ~StatusIsSuccess(r.status)

\* C12. Every failing HTTP response to a resource request, whatever the
\* shape of its body, ends the call with ApiError whose message holds the
\* HTTP status and the server's error.message when the body has one, the
\* raw response content otherwise.
C12_FailingResponseIsApiError ==
    \A t \in Callers :
        (task[t].op \in ViaRequest \cup DeleteOps
         /\ FailingStatus(task[t].op, task[t].resource_reply))
        => /\ task[t].out.kind = "ApiError"
           /\ task[t].out.status = task[t].resource_reply.status
           /\ task[t].out.detail =
                IF task[t].resource_reply.shape = "err_msg" THEN ServerMessage
                ELSE IF task[t].resource_reply.shape \in JsonShapes
                     THEN Rendered(task[t].resource_reply.shape)
                     ELSE BodyText(task[t].resource_reply.shape)

\* C13. A resource response with a success status whose body fails to
\* decode as JSON ends the call with ApiError carrying the status and the
\* body text; a body that is refused for its content type ends it with
\* ApiError as well.  Neither ends with a parse exception or a result.
C13_DecodeFailureIsApiError ==
    \A t \in Callers :
        (/\ task[t].op \in ViaRequest
         /\ task[t].resource_reply.kind = "response"
         /\ StatusIsSuccess(task[t].resource_reply.status))
        => /\ task[t].resource_reply.shape = "bad_json"
              => /\ task[t].pc = "done"
                 /\ task[t].out = Outcome("ApiError", task[t].resource_reply.status,
                                          BodyText("bad_json"))
           /\ task[t].resource_reply.shape = "not_json"
              => /\ task[t].pc = "done"
                 /\ task[t].out.kind = "ApiError"

C13_Witness ==
    \E t \in Callers :
        /\ task[t].op = "get_accounts"
        /\ task[t].resource_reply = ResourceReply("response", 200, "bad_json")
        /\ task[t].out = Outcome("ApiError", 200, "text of bad_json")

\* C14. Closed error taxonomy: whatever the transport does at the token
\* call and at the resource call, a public operation ends with a result or
\* with one of ValueError, AuthError and ApiError; no other exception
\* reaches the caller.
C14_ClosedTaxonomy ==
    \A t \in Callers :
        (task[t].op \in RequestOps \cup DeleteOps /\ task[t].pc = "done")
        => task[t].out.kind \in {"ok", "ValueError", "AuthError", "ApiError"}

\* C15. A resource request of a call that requires authentication (every
\* method but _request with requires_auth false) is sent only after
\* _get_access_token has returned to that call, and its Authorization
\* header holds the token that was returned: the cached one on a hit, the
\* one of the call's own token response on a miss.  With requires_auth
\* false no token is requested and no Authorization header is set.
C15_BearerIsOwnToken ==
    \A t \in Callers :
        /\ task[t].pc = "token_wait" => task[t].resource_posts = 0
        /\ (task[t].op = "request" /\ task[t].args # NoArgs
            /\ ~task[t].args.requires_auth)
           => /\ task[t].cache = "none"
              /\ task[t].token_posts = 0
              /\ task[t].bearer = NoneToken
        /\ task[t].pc = "resource_wait"
           => CASE task[t].cache = "none" ->
                     /\ task[t].op = "request"
                     /\ ~task[t].args.requires_auth
                     /\ task[t].bearer = NoneToken
                     /\ task[t].token_posts = 0
                [] task[t].cache = "hit" ->
                     /\ task[t].bearer \in TokenStrings
                     /\ task[t].bearer = task[t].got
                     /\ task[t].bearer = task[t].seen
                     /\ task[t].token_posts = 0
                [] OTHER ->
                     /\ task[t].bearer \in TokenStrings
                     /\ task[t].bearer = task[t].got
                     /\ task[t].token_reply.kind = "response"
                     /\ task[t].token_reply.status = HTTP_OK
                     /\ task[t].bearer = task[t].token_reply.token
                     /\ task[t].token_posts = 1

C15_Witness ==
    \E t \in Callers :
        /\ task[t].op = "delete_account" /\ task[t].pc = "resource_wait"
        /\ task[t].cache = "miss" /\ task[t].seen \in TokenStrings
        /\ task[t].bearer = task[t].token_reply.token
        /\ task[t].bearer # task[t].seen

\* C16. Every resource request that is sent, by _request and by each delete
\* operation, carries the X-PD-Environment header, whatever the client was
\* constructed with.
C16_EnvironmentHeaderAlways ==
    \A t \in Callers :
        task[t].resource_posts > 0 => task[t].env_header # "absent"

\* The token response of caller t carries a token and a usable expires_in.
ValidTokenReply(r) ==
    /\ r.kind = "response" /\ r.status = HTTP_OK /\ r.shape = "object"
    /\ r.token_kind = "string" /\ r.expires_kind # "nonnumber"

\* C17. No retries: one call sends at most one token request and at most
\* one resource request; once a token request or a resource request has
\* failed the call is over with the error, and a call that is over sends
\* nothing more.
C17_AtMostOnce ==
    \A t \in Callers :
        /\ task[t].token_posts <= 1
        /\ task[t].resource_posts <= 1
        /\ task[t].token_reply.kind # "none"
           => /\ task[t].pc \in {"done", "resource_wait"}
              /\ ~ValidTokenReply(task[t].token_reply)
                 => /\ task[t].pc = "done"
                    /\ task[t].out.kind \notin {"ok", "none"}
                    /\ task[t].resource_posts = 0
        /\ task[t].resource_reply.kind # "none"
           => /\ task[t].pc = "done"
              /\ task[t].resource_posts = 1

C17_EndedStep ==
    \A t \in Callers :
        task[t].pc = "done" => (task'[t] = task[t] \/ task'[t] = IdleTask)

C17_NoRetries == [](C17_AtMostOnce) /\ [][C17_EndedStep]_vars

C17_Witness ==
    \E t \in Callers :
        /\ task[t].op = "get_accounts" /\ task[t].pc = "done"
        /\ task[t].token_reply.kind = "response"
        /\ task[t].token_reply.status = 500
        /\ task[t].out.kind = "AuthError"
        /\ task[t].token_posts = 1 /\ task[t].resource_posts = 0

\* C18. Unguarded concurrent refresh: callers that overlap while the cache
\* is empty or expired each send their own token POST.  A caller whose
\* token response is a valid 200 gets the token of its own response, and
\* every such response overwrites the cache, so that the cache holds the
\* token and the expiry of the valid response that was processed last.
C18_OwnToken ==
    \A t \in Callers :
        (task[t].pc = "done" /\ task[t].cache = "miss"
         /\ ValidTokenReply(task[t].token_reply))
        => /\ task[t].out.kind = "ok"
           /\ task[t].got = task[t].token_reply.token

C18_LastWriterWins ==
    \A t \in Callers :
        (task[t].pc = "token_wait" /\ task'[t].pc # "token_wait"
         /\ ValidTokenReply(task'[t].token_reply))
        => /\ access_token' = task'[t].token_reply.token
           /\ token_expires_at' =
                ExpiresAt(now, ResponseExpiresIn(task'[t].token_reply))

C18_UnguardedRefresh == [](C18_OwnToken) /\ [][C18_LastWriterWins]_vars

\* Two callers found the cache empty, both sent a POST, each got the token
\* of its own response, and the cache holds the one processed last.
C18_Witness ==
    \E t \in Callers, u \in Callers :
        /\ t # u
        /\ task[t].pc = "done" /\ task[u].pc = "done"
        /\ task[t].cache = "miss" /\ task[u].cache = "miss"
        /\ task[t].seen = NoneToken /\ task[u].seen = NoneToken
        /\ task[t].token_posts = 1 /\ task[u].token_posts = 1
        /\ ValidTokenReply(task[t].token_reply)
        /\ ValidTokenReply(task[u].token_reply)
        /\ task[t].got = task[t].token_reply.token
        /\ task[u].got = task[u].token_reply.token
        /\ task[t].got # task[u].got
        /\ access_token = task[u].got

\* C19. Replaced, never merged: in every state, under every interleaving of
\* overlapping refreshes, the cached token and the cached token_expires_at
\* were written from one and the same token response.  Stated for the
\* states in which the cached pair is served to callers (line 225).
C19_TokenAndExpiryFromOneResponse ==
    CachedTokenUsable(access_token, token_expires_at, now)
    => /\ stored.valid
       /\ token_expires_at = ExpiresAt(stored.at, stored.expires_in)

\* C20. Session life cycle: once close() has returned, or the "async with"
\* block has been left, by its end or by an exception, a session the client
\* created itself is closed; a session the caller supplied is never closed
\* by the client.
C20_SessionLifecycle ==
    /\ (close_session
        /\ (close_returned \/ scope \in {"left", "left_by_exception"}))
       => session_closed
    /\ ~close_session => ~session_closed

C20_Witness ==
    /\ close_session
    /\ scope = "left_by_exception"
    /\ ~close_returned
    /\ session_closed

\* The step is the completion of some caller's token POST (lines 237-253).
TokenAcquisitionStep ==
    \E t \in Callers : task[t].pc = "token_wait" /\ task'[t].pc # "token_wait"

\* C21. Frame of the client's state: no step of a constructed client changes
\* the credentials or the environment, and the cached token and its expiry
\* change only in a step of token acquisition; resource responses,
\* validation failures, close() and the async-with block leave them alone.
C21_FrameStep ==
    /\ credentials' = credentials
    /\ environment' = environment
    /\ (access_token' # access_token \/ token_expires_at' # token_expires_at)
       => TokenAcquisitionStep

C21_Frame == [][C21_FrameStep]_vars

\* A token is cached, the session is closed, and a call has just failed
\* validation: the cache is still in place.
C21_Witness ==
    /\ access_token \in TokenStrings
    /\ close_returned
    /\ credentials = GivenCredentials
    /\ \E t \in Callers :
          task[t].op = "delete_account" /\ task[t].out.kind = "ValueError"

\* C22. Structural response validation: for every data-returning resource
\* method, a success response whose JSON lacks a required key of the
\* documented shape, or is no object at all (null, list, string), ends the
\* call with ApiError; it is never a result and never another error.
C22_MalformedSuccessIsApiError ==
    \A t \in Callers :
        (/\ task[t].op \in RequestOps
         /\ task[t].resource_reply.kind = "response"
         /\ StatusIsSuccess(task[t].resource_reply.status)
         /\ task[t].resource_reply.shape \in JsonShapes \ {"obj_ok"})
        => task[t].out.kind = "ApiError"

\* The call of caller t has built its request from its arguments: both are
\* in the state (from the call until the first response).
RequestBuilt(t) ==
    /\ task[t].pc \in {"token_wait", "resource_wait"}
    /\ task[t].args # NoArgs

\* C23. A listing that takes a page size and a cursor sends the caller's
\* limit, sends the caller's forward cursor under the query key "after",
\* returns the page_info block of the response, and sends one listing
\* request per call.
C23_ListingPagination ==
    \A t \in Callers :
        task[t].op \in ListingOps
        => /\ task[t].resource_posts <= 1
           /\ RequestBuilt(t)
              => /\ task[t].args.limit = "2" => "limit" \in task[t].dest
                 /\ task[t].args.cursor = "c1" => "after" \in task[t].dest
           /\ (task[t].op = "get_accounts" /\ task[t].out.kind = "ok")
              => task[t].out.detail \in {"page_info, data.accounts", "page_info, data"}

\* C24. Pagination round trip: get_accounts(limit=2), then get_accounts with
\* the forward cursor of the first page, on a stable set of accounts: the
\* second page shares no account id with the first.
C24_PagesDisjoint ==
    \A t \in Callers :
        (/\ task[t].op = "get_accounts" /\ task[t].pc = "done"
         /\ task[t].out.kind = "ok"
         /\ prev_page # {}
         /\ "limit" \in task[t].dest
         /\ task[t].dest \cap {"cursor", "after"} # {})
        => task[t].page \cap prev_page = {}

\* C25. Optional-parameter filtering: an optional parameter left as None is
\* not sent, and one given any other value, falsy ones included (limit=0,
\* an empty string, an empty list), is sent; alike for get_accounts,
\* get_components, get_deployed_triggers, get_deployed_trigger_events and
\* create_connect_token.
C25_OnlyNoneFiltered ==
    \A t \in Callers :
        (task[t].op \in ParamOps /\ RequestBuilt(t))
        => /\ task[t].op \in ListingOps \cup {"get_deployed_trigger_events"}
              => (task[t].args.limit # "None" <=> "limit" \in task[t].dest)
           /\ task[t].op \in ListingOps
              => (task[t].args.cursor # "None"
                  <=> task[t].dest \cap {"cursor", "after"} # {})
           /\ task[t].op = "create_connect_token"
              => (task[t].args.origins # "None"
                  <=> "allowed_origins" \in task[t].dest)

\* C30. get_accounts normalises the data field of a success response: an
\* object with "accounts" gives that list, a list gives the list itself,
\* both with the response's page_info; any other data ends with ApiError.
C30_AccountsNormalised ==
    \A t \in Callers :
        (/\ task[t].op = "get_accounts"
         /\ task[t].resource_reply.kind = "response"
         /\ StatusIsSuccess(task[t].resource_reply.status))
        => /\ task[t].resource_reply.shape = "obj_ok"
              => task[t].out = Outcome("ok", NoStatus, "page_info, data.accounts")
           /\ task[t].resource_reply.shape = "data_list"
              => task[t].out = Outcome("ok", NoStatus, "page_info, data")
           /\ task[t].resource_reply.shape = "data_other"
              => task[t].out.kind = "ApiError"

C30_Witness ==
    \E t \in Callers :
        /\ task[t].op = "get_accounts"
        /\ task[t].resource_reply = ResourceReply("response", 200, "data_list")
        /\ task[t].out = Outcome("ok", NoStatus, "page_info, data")

\* What the token fetch ends with on the response r (lines 236-253).
TokenFetchOutcome(r) ==
    ProcessTokenReply(r, NoneToken, InitialExpiresAt, 0).out

\* C26. When the token fetch of an authenticated operation ends with the
\* authentication error, the operation has sent no resource request and the
\* caller receives that very error, with its status and text, not the API's
\* error in its place.
C26_AuthErrorPassesThrough ==
    \A t \in Callers :
        (/\ task[t].op # "get_access_token"
         /\ task[t].token_reply.kind # "none"
         /\ TokenFetchOutcome(task[t].token_reply).kind = "AuthError")
        => /\ task[t].pc = "done"
           /\ task[t].resource_posts = 0
           /\ task[t].bearer = NoneToken
           /\ task[t].out = TokenFetchOutcome(task[t].token_reply)
           /\ task[t].out.kind # "ApiError"

C26_Witness ==
    \E t \in Callers :
        /\ task[t].op \in DeleteOps /\ task[t].pc = "done"
        /\ task[t].token_reply.kind = "ClientError"
        /\ task[t].out = NetworkAuthError
        /\ task[t].resource_posts = 0

\* C27. A token fetch that ends with the authentication error leaves the
\* cache as it was: the cached token and its expiry are the same after the
\* step as before it, so a caller that fails never erases the valid token
\* another caller has cached.
C27_FailedStep ==
    \A t \in Callers :
        (/\ task[t].pc = "token_wait"
         /\ task'[t].pc = "done"
         /\ task'[t].out.kind = "AuthError")
        => /\ access_token' = access_token
           /\ token_expires_at' = token_expires_at

C27_FailedRefreshKeepsCache == [][C27_FailedStep]_vars

\* C28. A token whose response carries an expires_in of at most 60 seconds
\* is never served from the cache: the stored expiry is not later than the
\* time of the fetch, the fetching call is given the token, and while that
\* token is the cached one every call looks the cache up in vain and sends
\* a token request of its own.
ShortLived == stored.valid /\ stored.expires_in <= MARGIN

C28_ShortLivedNotCached ==
    /\ ShortLived => token_expires_at <= stored.at
    /\ ShortLived => ~CachedTokenUsable(access_token, token_expires_at, now)
    /\ \A t \in Callers :
        /\ (/\ ValidTokenReply(task[t].token_reply)
            /\ task[t].token_reply.expires_kind = "number"
            /\ task[t].token_reply.expires_in <= MARGIN)
           => /\ task[t].got = task[t].token_reply.token
              /\ task[t].cache = "miss"
        /\ ShortLived
           => /\ task[t].cache # "hit"
              /\ task[t].cache = "miss" => task[t].token_posts = 1

\* A call that follows the fetch of a token with expires_in = 60 waits for
\* a token response of its own.
C28_Witness ==
    /\ ShortLived /\ stored.expires_in = MARGIN
    /\ TokenTruthy(access_token)
    /\ \E t \in Callers :
        /\ task[t].pc = "token_wait"
        /\ task[t].seen = access_token
        /\ task[t].cache = "miss"

\* ------------------------------------------------------------ construction
\* An attribute that no statement has assigned yet.
Unset == -1
NoCredentials ==
    [client_id |-> "None", client_secret |-> "None", project_id |-> "None"]

\* client_id, client_secret, project_id: None, "" or a string.
CredentialVals == {"None", "", "id"}
CredentialSpace ==
    [client_id : CredentialVals, client_secret : CredentialVals,
     project_id : CredentialVals]

\* Before PipedreamClient(...) is evaluated there is no object.
InitConstruct ==
    /\ access_token = Unset
    /\ token_expires_at = Unset
    /\ now = 0
    /\ task = [t \in Callers |-> IdleTask]
    /\ stored = NothingStored
    /\ environment = "None"
    /\ close_session = FALSE
    /\ session_closed = FALSE
    /\ scope = "outside"
    /\ close_returned = FALSE
    /\ credentials = NoCredentials
    /\ constructed = "no"
    /\ session_created = FALSE
    /\ prev_page = {}

\* PipedreamClient(client_id, client_secret, project_id, environment,
\* session), lines 178-207: the check of line 196 raises before anything is
\* assigned and before line 203 opens a session.
New(creds, env, external) ==
    /\ constructed = "no"
    /\ IF CredentialsValid(creds)
       THEN /\ credentials' = creds                    \* lines 199-201
            /\ environment' = env                      \* line 202
            /\ session_created' = ~external            \* line 203
            /\ close_session' = ~external              \* line 204
            /\ access_token' = NoneToken               \* line 206
            /\ token_expires_at' = InitialExpiresAt    \* line 207
            /\ constructed' = "yes"
            /\ UNCHANGED <<now, task, stored, session_closed, scope,
                           close_returned, prev_page>>
       ELSE /\ constructed' = "ValueError"
            /\ UNCHANGED <<access_token, token_expires_at, now, task, stored,
                           environment, close_session, session_closed, scope,
                           close_returned, credentials, session_created,
                           prev_page>>

NextConstruct ==
    \/ \E creds \in CredentialSpace, env \in EnvVals, external \in BOOLEAN :
          New(creds, env, external)
    \/ \E t \in Solo, op \in ClientOps : \E a \in ArgSpace(op) :
          constructed = "yes" /\ Call(t, op, a)
    \/ \E t \in Solo, r \in TokenReplies : TokenResponse(t, r)
    \/ \E t \in Solo, r \in ResourceReplies : ResourceResponse(t, r)
    \/ \E t \in Solo : Return(t)

SpecConstruct == InitConstruct /\ [][NextConstruct]_vars

\* C29. A constructor call with an empty or missing client_id,
\* client_secret or project_id ends with ValueError and has opened no
\* session; a constructor call that succeeds leaves the cache empty (no
\* token, expiry 0), and a method that needs a token and is called on that
\* cache sends a token request.
C29_Constructed ==
    /\ constructed = "yes"
       => /\ \A f \in DOMAIN credentials : credentials[f] \notin {"None", ""}
          /\ session_created = close_session
    /\ constructed = "ValueError"
       => /\ ~session_created
          /\ credentials = NoCredentials
          /\ access_token = Unset /\ token_expires_at = Unset
    /\ constructed # "yes" => \A t \in Callers : task[t] = IdleTask

C29_Step ==
    /\ (constructed = "no" /\ constructed' = "yes")
       => /\ access_token' = NoneToken
          /\ token_expires_at' = 0
          /\ \A t \in Callers : task'[t].token_posts = 0
    /\ \A t \in Callers :
        (/\ access_token = NoneToken /\ token_expires_at = 0
         /\ task[t].pc = "idle" /\ task'[t].pc # "idle"
         /\ task'[t].out.kind # "ValueError"
         /\ NeedsToken(task'[t].op, task'[t].args))
        => /\ task'[t].pc = "token_wait"
           /\ task'[t].token_posts = 1
           /\ task'[t].resource_posts = 0

C29_Construction == [](C29_Constructed) /\ [][C29_Step]_vars

\* A constructor call with an empty client_secret has failed.
C29_WitnessRejected == constructed = "ValueError" /\ ~session_created

\* The first call on a new client waits for its token.
C29_Witness ==
    /\ constructed = "yes" /\ session_created
    /\ access_token = NoneToken /\ token_expires_at = 0
    /\ stored = NothingStored
    /\ \E t \in Callers : task[t].pc = "token_wait" /\ task[t].op = "delete_account"

====
